---- MODULE Spec2Model ----
(***************************************************************************)
(* A model of the download scripts of SIF-Analysis:                        *)
(*   - src/scripts/ecostress_monthly.py: run_batch, run_single_month,      *)
(*     poll_until_done, check_task_status, download_bundle, submit_task,   *)
(*     main's option parsing, month_dates_mmddyyyy;                        *)
(*   - src/download_drought_from_drive.py: download_drought_files;         *)
(*   - src/download_gee_drought.py: the half-monthly periods.              *)
(* The AppEEARS server, the output directory and the manifest directory    *)
(* are part of the state.  A run can end at any step (a kill, or an        *)
(* exception raised by a network call) and be started again; the           *)
(* directories and the server survive the run, its local variables do not. *)
(***************************************************************************)
EXTENDS Integers, Sequences, FiniteSets, TLC

\* ------------------------------------------------------------------ bounds

\* Number of runs started over one output directory.
MaxRuns == 2

\* The months of a year: the code's range(1, 13), cut to its first month to
\* keep the state space finite (two years of one month: two tasks).
MonthNumbers == {1}

\* The values --start-year, --end-year and --year are drawn from.
Years == {2019, 2020}

\* The values of --poll: its default (line 446) and another one.
PollSeconds == {60, 5}

\* The status strings a task reports.  The code tests only for "done",
\* "error" and "failed" (lines 130-132, 371-373); "processing" stands for
\* every other value of the field, a missing field (None) included.
Statuses == {"done", "error", "failed", "processing"}

\* The file_name values a bundle lists, as their "/"-separated components.
FileNames == {<<"a.tif">>, <<"sub", "a.tif">>, <<"b.tif">>}

\* The final path components of FileNames: the names of the output directory.
LocalNames == {"a.tif", "b.tif"}

\* The names of the files of the Drive folder that match the pattern.
DriveNames == {"DM_1.tif", "DM_2.tif"}

\* The listings files().list may give: items of an id and a name (Drive
\* lets two files of a folder have one name).
DriveListings ==
    {<<>>,
     <<[id |-> 1, name |-> "DM_1.tif"]>>,
     <<[id |-> 1, name |-> "DM_1.tif"], [id |-> 2, name |-> "DM_2.tif"]>>,
     <<[id |-> 1, name |-> "DM_1.tif"], [id |-> 3, name |-> "DM_1.tif"]>>}

\* The bundles the server may hold for a task: file_id is the entry's own id.
Bundles ==
    {<<>>}
    \cup {<<[file_id |-> 1, file_name |-> n]>> : n \in FileNames}
    \cup {<<[file_id |-> 1, file_name |-> <<"sub", "a.tif">>],
            [file_id |-> 2, file_name |-> <<"a.tif">>]>>,
          <<[file_id |-> 1, file_name |-> <<"a.tif">>],
            [file_id |-> 2, file_name |-> <<"b.tif">>]>>}

\* ------------------------------------------------------------------- state

VARIABLES
    \* the manifest directory, the output directory, the server
    manifests,        \* (year, month) -> the manifest file of that month
    local_files,      \* name -> the file of that name in the output directory
    server_tasks,     \* the tasks the server accepted; a task's id is its index
    \* the current run
    runs,             \* runs started so far
    mode,             \* "none" | "batch" | "single"
    pc,               \* the run's position
    args,             \* start_year, end_year (batch); year, month (single)
    months,           \* run_batch: the list of (year, month) pairs
    i,                \* run_batch: index into months (Phase 1)
    task_id,          \* the task id of the month at hand
    tasks,            \* run_batch: (year, month) -> task id, in insertion order
    pending,          \* run_batch: tasks still being processed
    failed,           \* run_batch: tasks that reported error or failed
    done_this_round,  \* run_batch: keys settled in the current round
    j,                \* run_batch: index into pending (Phase 2)
    k,                \* run_batch: index into tasks (Phase 3)
    dl_task_id,       \* download_bundle: its task_id argument
    files,            \* download_bundle: the bundle's file list
    fi,               \* download_bundle: index into files
    successful,       \* run_batch: the reported number of successful months
    \* history of the current run (not read by the program)
    reached,          \* (year, month) -> what the manifest test found
    submitted_run,    \* ids of the tasks this run submitted
    last_status,      \* (year, month) -> the last status reported for it
    round_queries,    \* keys queried in the current polling round
    sleeps,           \* the sleeps (their seconds) since the last status query or round
    rounds,           \* "none" | "some": polling rounds completed
    downloaded,       \* task ids download_bundle was called with
    listed,           \* the file lists the server gave for them
    dl_log,           \* download_bundle: what it did with each file so far
    last_exit,        \* how the last run ended
    \* history of all runs (not read by the program)
    failed_task,      \* (year, month) -> the task that reported error or failed for it
    \* download_drought_from_drive.py
    d_local,          \* name -> the file of that name in OUTPUT_DIR
    d_runs,           \* runs of the script started so far
    d_pc,             \* the run's position
    d_items,          \* download_drought_files: the files the listing gave
    d_n,              \* download_drought_files: index into items
    d_log,            \* history: what the run did with each item so far
    \* main of ecostress_monthly.py, its option parsing
    c_pc,             \* main's position
    c_argv,           \* the options as given on the command line
    c_args,           \* args: the namespace parse_args returned
    c_called,         \* what main called: run_batch, run_single_month, parser.error
    \* download_gee_drought.py
    g_pc,             \* the script's position
    g_current,        \* current: the first day of the month at hand
    g_periods,        \* half_monthly_periods
    g_exports,        \* the exports started: filterDate's arguments, the description
    \* the dates of a month's task (month_dates_mmddyyyy and its callers)
    m_pc,             \* the position in the submission of one month
    m_year,           \* year
    m_month,          \* month
    m_dates,          \* (start_date, end_date)
    m_task,           \* submit_task: the dates of the task payload
    m_manifest        \* the manifest dict written for the month

persistent == <<manifests, local_files, server_tasks>>
locals == <<mode, pc, args, months, i, task_id, tasks, pending, failed,
            done_this_round, j, k, dl_task_id, files, fi, successful>>
history == <<reached, submitted_run, last_status, round_queries, sleeps,
             rounds, downloaded, listed, dl_log, last_exit>>
drive == <<d_local, d_runs, d_pc, d_items, d_n, d_log>>
ledger == <<failed_task>>
ecostress == <<persistent, runs, locals, history, ledger>>
cli == <<c_pc, c_argv, c_args, c_called>>
gee == <<g_pc, g_current, g_periods, g_exports>>
dates == <<m_pc, m_year, m_month, m_dates, m_task, m_manifest>>
beside_ecostress == <<drive, cli, gee, dates>>
beside_drive == <<ecostress, cli, gee, dates>>
beside_cli == <<ecostress, drive, gee, dates>>
beside_gee == <<ecostress, drive, cli, dates>>
beside_dates == <<ecostress, drive, cli, gee>>
vars == <<ecostress, drive, cli, gee, dates>>

\* ----------------------------------------------------------------- helpers

AllKeys == Years \X MonthNumbers

NoManifest == [st |-> "nofile", task_id |-> 0, year |-> 0, month |-> 0]
\* A manifest file that was created and not yet written (size zero).
EmptyManifest == [st |-> "empty", task_id |-> 0, year |-> 0, month |-> 0]

NoFile == [st |-> "absent", task_id |-> 0, file_id |-> 0]
EmptyFile == [st |-> "empty", task_id |-> 0, file_id |-> 0]

\* st_size of a file of the output directory, in chunks.
Size(f) == CASE f.st = "empty" -> 0
             [] f.st = "partial" -> 1
             [] f.st = "full" -> 2
             [] OTHER -> 0

NoArgs == [start_year |-> 0, end_year |-> 0, year |-> 0, month |-> 0, poll |-> 0]

\* A Python dict as the sequence of its items in insertion order.
DictKeys(d) == {d[n].key : n \in 1..Len(d)}
DictHas(d, key) == \E n \in 1..Len(d) : d[n].key = key
DictSet(d, key, v) ==
    IF DictHas(d, key)
    THEN [n \in 1..Len(d) |-> IF d[n].key = key THEN [key |-> key, task_id |-> v] ELSE d[n]]
    ELSE Append(d, [key |-> key, task_id |-> v])
DictDel(d, key) == SelectSeq(d, LAMBDA e : e.key # key)

RECURSIVE DictDelAll(_, _)
DictDelAll(d, keys) ==
    IF keys = <<>> THEN d ELSE DictDelAll(DictDel(d, Head(keys)), Tail(keys))

SeqSet(s) == {s[n] : n \in 1..Len(s)}

\* run_batch, lines 285-289: the (year, month) pairs of the range.
MonthsOfYear(year) == [m \in MonthNumbers |-> <<year, m>>]

RECURSIVE BuildMonths(_, _)
BuildMonths(year, end_year) ==
    IF year > end_year THEN <<>>
    ELSE MonthsOfYear(year) \o BuildMonths(year + 1, end_year)

\* Lines 329 and 242: manifest_path.exists().
ManifestExistsNever(key) == FALSE
ManifestExists(key) == manifests[key].st # "nofile"

\* json.loads(manifest_path.read_text()) succeeds
ManifestReadable(key) == manifests[key].st = "ok"

\* The manifest dict of lines 249-258 and 335-344.
ManifestOfNoId(tid, key) == [st |-> "ok", task_id |-> 0, year |-> key[1], month |-> key[2]]
ManifestOf(tid, key) == [st |-> "ok", task_id |-> tid, year |-> key[1], month |-> key[2]]

\* What a look at the manifest directory finds for a month.
Found(key) == IF manifests[key].st = "nofile" THEN "absent" ELSE "present"

\* submit_task: the server accepts the task and returns its id.
NewTaskId == Len(server_tasks) + 1
ServerSubmit(key) == Append(server_tasks, [key |-> key])

\* An option of the command line: absent (None after parse_args) or given.
None == [given |-> FALSE, v |-> 0]
Some(x) == [given |-> TRUE, v |-> x]

\* Lines 440-447: the options of main before parse_args.
NoOptions == [year |-> None, month |-> None, start_year |-> None, end_year |-> None]

\* A datetime at midnight: its year, month and day.
Date(y, m, d) == [year |-> y, month |-> m, day |-> d]
NoDate == Date(0, 0, 0)

\* datetime's "<".
DateLess(a, b) ==
    \/ a.year < b.year
    \/ a.year = b.year /\ a.month < b.month
    \/ a.year = b.year /\ a.month = b.month /\ a.day < b.day

\* The decimal digits of a number, as a string of characters.
DigitChar(n) == <<"0", "1", "2", "3", "4", "5", "6", "7", "8", "9">>[n + 1]

RECURSIVE Str(_)
Str(n) == IF n < 10 THEN <<DigitChar(n)>> ELSE Append(Str(n \div 10), DigitChar(n % 10))

\* A number formatted to at least w digits with leading zeros: the format
\* specs 02d, and strftime's %Y (four digits), %m and %d (two).
RECURSIVE ZeroPad(_, _)
ZeroPad(n, w) == IF Len(Str(n)) >= w THEN Str(n) ELSE <<"0">> \o ZeroPad(n, w - 1)

\* No (start_date, end_date) pair yet, and no manifest dict yet.
NoDates == <<<<>>, <<>>>>
NoManifestDict == [year |-> 0, month |-> 0, start_date |-> <<>>, end_date |-> <<>>]

\* ------------------------------------------------------------------- init

InitLocals ==
    /\ mode = "none" /\ pc = "idle" /\ args = NoArgs
    /\ months = <<>> /\ i = 0 /\ task_id = 0
    /\ tasks = <<>> /\ pending = <<>> /\ failed = <<>>
    /\ done_this_round = <<>> /\ j = 0 /\ k = 0
    /\ dl_task_id = 0 /\ files = <<>> /\ fi = 0 /\ successful = 0

InitHistory ==
    /\ reached = [key \in AllKeys |-> "unreached"]
    /\ submitted_run = {}
    /\ last_status = [key \in AllKeys |-> "unqueried"]
    /\ round_queries = <<>>
    /\ sleeps = <<>>
    /\ rounds = "none"
    /\ downloaded = <<>>
    /\ listed = <<>>
    /\ dl_log = {}

Init ==
    /\ manifests = [key \in AllKeys |-> NoManifest]
    /\ local_files = [n \in LocalNames |-> NoFile]
    /\ server_tasks = <<>>
    /\ runs = 0
    /\ InitLocals
    /\ InitHistory
    /\ last_exit = "none"
    /\ failed_task = [key \in AllKeys |-> 0]
    /\ d_local = [n \in DriveNames |-> NoFile]
    /\ d_runs = 0
    /\ d_pc = "idle"
    /\ d_items = <<>>
    /\ d_n = 0
    /\ d_log = {}
    /\ c_pc = "idle"
    /\ c_argv = NoOptions
    /\ c_args = NoOptions
    /\ c_called = <<>>
    /\ g_pc = "idle"
    /\ g_current = NoDate
    /\ g_periods = <<>>
    /\ g_exports = <<>>
    /\ m_pc = "idle"
    /\ m_year = 0
    /\ m_month = 0
    /\ m_dates = NoDates
    /\ m_task = NoDates
    /\ m_manifest = NoManifestDict

\* The local variables and the history of a run that is over.
ResetLocals ==
    /\ mode' = "none" /\ args' = NoArgs
    /\ months' = <<>> /\ i' = 0 /\ task_id' = 0
    /\ tasks' = <<>> /\ pending' = <<>> /\ failed' = <<>>
    /\ done_this_round' = <<>> /\ j' = 0 /\ k' = 0
    /\ dl_task_id' = 0 /\ files' = <<>> /\ fi' = 0 /\ successful' = 0

ResetHistory ==
    /\ reached' = [key \in AllKeys |-> "unreached"]
    /\ submitted_run' = {}
    /\ last_status' = [key \in AllKeys |-> "unqueried"]
    /\ round_queries' = <<>>
    /\ sleeps' = <<>>
    /\ rounds' = "none"
    /\ downloaded' = <<>>
    /\ listed' = <<>>
    /\ dl_log' = {}

\* An exception leaves the run: the process exits.
Raise(how) ==
    /\ pc' = "idle"
    /\ ResetLocals
    /\ ResetHistory
    /\ last_exit' = how

Running == pc \notin {"idle", "done"}

\* --------------------------------------------------------- run_batch start

\* main -> run_batch(args): lines 282-321, up to the first month of Phase 1.
StartBatch ==
    /\ ~Running
    /\ runs < MaxRuns
    /\ \E sy \in Years, ey \in Years, poll \in PollSeconds :
        /\ sy <= ey
        /\ args' = [NoArgs EXCEPT !.start_year = sy, !.end_year = ey, !.poll = poll]
        /\ months' = BuildMonths(sy, ey)
    /\ runs' = runs + 1
    /\ mode' = "batch"
    /\ pc' = "p1_loop"
    /\ i' = 1
    /\ task_id' = 0
    /\ tasks' = <<>> /\ pending' = <<>> /\ failed' = <<>>
    /\ done_this_round' = <<>> /\ j' = 0 /\ k' = 0
    /\ dl_task_id' = 0 /\ files' = <<>> /\ fi' = 0 /\ successful' = 0
    /\ ResetHistory
    /\ last_exit' = "running"
    /\ UNCHANGED persistent
    /\ UNCHANGED <<ledger, beside_ecostress>>

\* ------------------------------------------------------- run_batch Phase 1

\* Lines 323-334 and 348-350, then 361-362 when the loop is over: one month
\* of Phase 1, up to the return of submit_task or to the end of the body.
P1Loop ==
    /\ mode = "batch" /\ pc = "p1_loop"
    /\ IF i > Len(months)
       THEN \* lines 352-362
            /\ pending' = tasks
            /\ failed' = <<>>
            /\ pc' = "p2_while"
            /\ UNCHANGED <<persistent, runs, mode, args, months, i, task_id, tasks,
                           done_this_round, j, k, dl_task_id, files, fi, successful,
                           history>>
       ELSE LET key == months[i] IN
            IF ManifestExists(key)
            THEN IF ManifestReadable(key)
                 THEN \* lines 330-332, 348-350
                      /\ task_id' = manifests[key].task_id
                      /\ tasks' = DictSet(tasks, key, manifests[key].task_id)
                      /\ i' = i + 1
                      /\ reached' = [reached EXCEPT ![key] = Found(key)]
                      /\ UNCHANGED <<persistent, runs, mode, pc, args, months, pending,
                                     failed, done_this_round, j, k, dl_task_id, files,
                                     fi, successful, submitted_run, last_status,
                                     round_queries, sleeps, rounds, downloaded, listed, dl_log,
                                     last_exit>>
                 ELSE \* json.loads raises on a manifest that was never written
                      /\ Raise("raised")
                      /\ UNCHANGED <<persistent, runs>>
            ELSE \* line 334: submit_task
                 /\ server_tasks' = ServerSubmit(key)
                 /\ task_id' = NewTaskId
                 /\ submitted_run' = submitted_run \cup {NewTaskId}
                 /\ reached' = [reached EXCEPT ![key] = Found(key)]
                 /\ pc' = "p1_manifest_open"
                 /\ UNCHANGED <<manifests, local_files, runs, mode, args, months, i,
                                tasks, pending, failed, done_this_round, j, k,
                                dl_task_id, files, fi, successful, last_status,
                                round_queries, sleeps, rounds, downloaded, listed, dl_log,
                                last_exit>>
    /\ UNCHANGED <<ledger, beside_ecostress>>

\* Line 345, manifest_path.write_text: the file is created (or truncated).
P1ManifestOpen ==
    /\ mode = "batch" /\ pc = "p1_manifest_open"
    /\ manifests' = [manifests EXCEPT ![months[i]] = EmptyManifest]
    /\ pc' = "p1_manifest_write"
    /\ UNCHANGED <<local_files, server_tasks, runs, mode, args, months, i,
                   task_id, tasks, pending, failed, done_this_round, j, k, dl_task_id,
                   files, fi, successful, history>>
    /\ UNCHANGED <<ledger, beside_ecostress>>

\* Line 345, the manifest's text is written; then lines 346-350.
P1ManifestWrite ==
    /\ mode = "batch" /\ pc = "p1_manifest_write"
    /\ manifests' = [manifests EXCEPT ![months[i]] = ManifestOf(task_id, months[i])]
    /\ tasks' = DictSet(tasks, months[i], task_id)
    /\ i' = i + 1
    /\ pc' = "p1_loop"
    /\ UNCHANGED <<local_files, server_tasks, runs, mode, args, months,
                   task_id, pending, failed, done_this_round, j, k, dl_task_id,
                   files, fi, successful, history>>
    /\ UNCHANGED <<ledger, beside_ecostress>>

\* -------------------------------------------------------- run_single_month

\* main -> run_single_month(args): lines 210-239.
StartSingle ==
    /\ ~Running
    /\ runs < MaxRuns
    /\ \E y \in Years, m \in MonthNumbers, poll \in PollSeconds :
        args' = [NoArgs EXCEPT !.year = y, !.month = m, !.poll = poll]
    /\ runs' = runs + 1
    /\ mode' = "single"
    /\ pc' = "s_check"
    /\ months' = <<>> /\ i' = 0 /\ task_id' = 0
    /\ tasks' = <<>> /\ pending' = <<>> /\ failed' = <<>>
    /\ done_this_round' = <<>> /\ j' = 0 /\ k' = 0
    /\ dl_task_id' = 0 /\ files' = <<>> /\ fi' = 0 /\ successful' = 0
    /\ ResetHistory
    /\ last_exit' = "running"
    /\ UNCHANGED persistent
    /\ UNCHANGED <<ledger, beside_ecostress>>

SingleKey == <<args.year, args.month>>

\* Lines 241-248: the manifest is read, or the task is submitted.
SCheck ==
    /\ mode = "single" /\ pc = "s_check"
    /\ IF ManifestExists(SingleKey)
       THEN IF ManifestReadable(SingleKey)
            THEN /\ task_id' = manifests[SingleKey].task_id
                 /\ reached' = [reached EXCEPT ![SingleKey] = Found(SingleKey)]
                 /\ pc' = "s_poll"
                 /\ UNCHANGED <<persistent, runs, mode, args, months, i, tasks, pending,
                                failed, done_this_round, j, k, dl_task_id, files, fi,
                                successful, submitted_run, last_status, round_queries,
                                sleeps, rounds, downloaded, listed, dl_log, last_exit>>
            ELSE /\ Raise("raised")
                 /\ UNCHANGED <<persistent, runs>>
       ELSE /\ server_tasks' = ServerSubmit(SingleKey)
            /\ task_id' = NewTaskId
            /\ submitted_run' = submitted_run \cup {NewTaskId}
            /\ reached' = [reached EXCEPT ![SingleKey] = Found(SingleKey)]
            /\ pc' = "s_manifest_open"
            /\ UNCHANGED <<manifests, local_files, runs, mode, args, months, i, tasks,
                           pending, failed, done_this_round, j, k, dl_task_id, files,
                           fi, successful, last_status, round_queries, sleeps, rounds,
                           downloaded, listed, dl_log, last_exit>>
    /\ UNCHANGED <<ledger, beside_ecostress>>

\* Line 259, manifest_path.write_text: the file is created (or truncated).
SManifestOpen ==
    /\ mode = "single" /\ pc = "s_manifest_open"
    /\ manifests' = [manifests EXCEPT ![SingleKey] = EmptyManifest]
    /\ pc' = "s_manifest_write"
    /\ UNCHANGED <<local_files, server_tasks, runs, mode, args, months, i,
                   task_id, tasks, pending, failed, done_this_round, j, k, dl_task_id,
                   files, fi, successful, history>>
    /\ UNCHANGED <<ledger, beside_ecostress>>

\* Line 259, the manifest's text is written; then lines 260-264.
SManifestWrite ==
    /\ mode = "single" /\ pc = "s_manifest_write"
    /\ manifests' = [manifests EXCEPT ![SingleKey] = ManifestOf(task_id, SingleKey)]
    /\ pc' = "s_poll"
    /\ UNCHANGED <<local_files, server_tasks, runs, mode, args, months, i,
                   task_id, tasks, pending, failed, done_this_round, j, k, dl_task_id,
                   files, fi, successful, history>>
    /\ UNCHANGED <<ledger, beside_ecostress>>

\* ------------------------------------------------------- run_batch Phase 2

\* Line 385: the seconds a sleep of Phase 2 lasts.
SleepSeconds == args.poll

\* Lines 265 and 114: the poll_seconds argument of poll_until_done.
poll_seconds == args.poll

\* The history of sleeps after one more (kept to its first two).
Slept(seconds) == IF Len(sleeps) < 2 THEN Append(sleeps, seconds) ELSE sleeps

\* Lines 371 and 130: the status that ends the wait with success.
IsDoneOrFailed(status) == status \in {"done", "failed"}
IsDone(status) == status = "done"

\* Lines 374 and 132: the statuses that mark a task as failed.
IsFailedOnlyError(status) == status = "error"
IsFailed(status) == status \in {"error", "failed"}

\* Line 364, while pending: a round begins (line 365), or Phase 2 is over
\* (lines 387-397).
LoopOnce(p) == p # <<>> /\ rounds = "none"
LoopWhile(p) == p # <<>>

P2While ==
    /\ mode = "batch" /\ pc = "p2_while"
    /\ IF LoopWhile(pending)
       THEN /\ done_this_round' = <<>>
            /\ j' = 1
            /\ round_queries' = <<>>
            /\ pc' = "p2_query"
            /\ UNCHANGED k
       ELSE /\ k' = 1
            /\ pc' = "p3_loop"
            /\ UNCHANGED <<done_this_round, j, round_queries>>
    /\ UNCHANGED <<persistent, runs, mode, args, months, i, task_id, tasks, pending,
                   failed, dl_task_id, files, fi, successful, reached, submitted_run,
                   last_status, sleeps, rounds, downloaded, listed, dl_log, last_exit>>
    /\ UNCHANGED <<ledger, beside_ecostress>>

\* Line 367: the dict the status loop iterates over.
Polled == pending

\* Lines 367-377: check_task_status (lines 138-142) for the next pending
\* task, and what the loop body does with the status.
P2Query ==
    /\ mode = "batch" /\ pc = "p2_query"
    /\ LET info == Polled[j] IN
       \E status \in Statuses :
         /\ task_id' = info.task_id
         /\ last_status' = [last_status EXCEPT ![info.key] = status]
         /\ round_queries' = Append(round_queries, info.key)
         /\ IF IsDone(status)
            THEN /\ done_this_round' = Append(done_this_round, info.key)
                 /\ UNCHANGED failed
            ELSE IF IsFailed(status)
            THEN /\ failed' = DictSet(failed, info.key, info.task_id)
                 /\ done_this_round' = Append(done_this_round, info.key)
            ELSE UNCHANGED <<failed, done_this_round>>
         /\ failed_task' = IF IsFailed(status)
                           THEN [failed_task EXCEPT ![info.key] = info.task_id]
                           ELSE failed_task
    /\ j' = j + 1
    /\ pc' = IF j + 1 > Len(Polled) THEN "p2_end" ELSE "p2_query"
    /\ UNCHANGED <<persistent, runs, mode, args, months, i, tasks, pending, k,
                   dl_task_id, files, fi, successful, reached, submitted_run, sleeps,
                   rounds, downloaded, listed, dl_log, last_exit>>
    /\ UNCHANGED beside_ecostress

\* Line 382, if pending: whether the round is followed by a sleep.
SleepAlways(p) == TRUE
SleepIf(p) == p # <<>>

\* Lines 379-382: the settled tasks leave pending; the round is over.
P2EndRound ==
    /\ mode = "batch" /\ pc = "p2_end"
    /\ pending' = DictDelAll(pending, done_this_round)
    /\ pc' = IF SleepIf(pending') THEN "p2_sleep" ELSE "p2_while"
    /\ sleeps' = <<>>
    /\ rounds' = "some"
    /\ UNCHANGED <<persistent, runs, mode, args, months, i, task_id, tasks, failed,
                   done_this_round, j, k, dl_task_id, files, fi, successful, reached,
                   submitted_run, last_status, round_queries, downloaded, listed,
                   dl_log, last_exit>>
    /\ UNCHANGED <<ledger, beside_ecostress>>

\* Lines 383-385: time.sleep(args.poll).
P2Sleep ==
    /\ mode = "batch" /\ pc = "p2_sleep"
    /\ sleeps' = Slept(SleepSeconds)
    /\ pc' = "p2_while"
    /\ UNCHANGED <<persistent, runs, mode, args, months, i, task_id, tasks, pending,
                   failed, done_this_round, j, k, dl_task_id, files, fi, successful,
                   reached, submitted_run, last_status, round_queries, rounds,
                   downloaded, listed, dl_log, last_exit>>
    /\ UNCHANGED <<ledger, beside_ecostress>>

\* --------------------------------------------------------- poll_until_done

\* Lines 123-133: one status query of poll_until_done and what follows it:
\* the return (and line 269, the call of download_bundle), the RuntimeError,
\* or the way to the sleep.
SPoll ==
    /\ mode = "single" /\ pc = "s_poll"
    /\ \E status \in Statuses :
        IF IsDone(status)
        THEN /\ dl_task_id' = task_id
             /\ downloaded' = Append(downloaded, task_id)
             /\ pc' = "db_get"
             /\ last_status' = [last_status EXCEPT ![SingleKey] = status]
             /\ sleeps' = <<>>
             /\ rounds' = "some"
             /\ UNCHANGED <<persistent, runs, mode, args, months, i, task_id, tasks,
                            pending, failed, done_this_round, j, k, files, fi,
                            successful, reached, submitted_run, round_queries, listed,
                            dl_log, last_exit, failed_task>>
        ELSE IF IsFailed(status)
        THEN /\ Raise("task_failed")
             /\ failed_task' = [failed_task EXCEPT ![SingleKey] = task_id]
             /\ UNCHANGED <<persistent, runs>>
        ELSE /\ pc' = "s_sleep"
             /\ last_status' = [last_status EXCEPT ![SingleKey] = status]
             /\ sleeps' = <<>>
             /\ rounds' = "some"
             /\ UNCHANGED <<persistent, runs, mode, args, months, i, task_id, tasks,
                            pending, failed, done_this_round, j, k, dl_task_id, files,
                            fi, successful, reached, submitted_run, round_queries,
                            downloaded, listed, dl_log, last_exit, failed_task>>
    /\ UNCHANGED beside_ecostress

\* Line 135: time.sleep(poll_seconds).
SSleep ==
    /\ mode = "single" /\ pc = "s_sleep"
    /\ sleeps' = Slept(poll_seconds)
    /\ pc' = "s_poll"
    /\ UNCHANGED <<persistent, runs, mode, args, months, i, task_id, tasks, pending,
                   failed, done_this_round, j, k, dl_task_id, files, fi, successful,
                   reached, submitted_run, last_status, round_queries, rounds,
                   downloaded, listed, dl_log, last_exit>>
    /\ UNCHANGED <<ledger, beside_ecostress>>

\* ------------------------------------------------------- run_batch Phase 3

\* Line 400: whether Phase 3 skips the task.
SkipNone(key) == FALSE
SkipFailed(key) == DictHas(failed, key)

\* Line 408.
Successful == Len(tasks) - Len(failed)

\* Lines 399-405, up to the call of download_bundle; lines 407-413 when the
\* loop is over.
P3Loop ==
    /\ mode = "batch" /\ pc = "p3_loop"
    /\ IF k > Len(tasks)
       THEN /\ successful' = Successful
            /\ pc' = "done"
            /\ last_exit' = "complete"
            /\ UNCHANGED <<k, dl_task_id, downloaded>>
       ELSE IF SkipFailed(tasks[k].key)
       THEN /\ k' = k + 1
            /\ UNCHANGED <<pc, dl_task_id, successful, downloaded, last_exit>>
       ELSE /\ dl_task_id' = tasks[k].task_id
            /\ downloaded' = Append(downloaded, tasks[k].task_id)
            /\ pc' = "db_get"
            /\ UNCHANGED <<k, successful, last_exit>>
    /\ UNCHANGED <<persistent, runs, mode, args, months, i, task_id, tasks, pending,
                   failed, done_this_round, j, files, fi, reached, submitted_run,
                   last_status, round_queries, sleeps, rounds, listed, dl_log>>
    /\ UNCHANGED <<ledger, beside_ecostress>>

\* --------------------------------------------------------- download_bundle

\* Lines 166-170: the last "/"-separated component of file_name.
FinalComponent(file_name) == file_name[Len(file_name)]

\* Line 175: outpath.exists() and outpath.stat().st_size > 0.
ExistsAnySize(fname) == local_files[fname].st # "absent"
ExistsNonEmpty(fname) ==
    local_files[fname].st # "absent" /\ Size(local_files[fname]) > 0

\* Lines 151-159: the bundle's file list is fetched.
DBGet ==
    /\ pc = "db_get"
    /\ \E b \in Bundles :
        /\ files' = b
        /\ listed' = Append(listed, b)
    /\ fi' = 1
    /\ dl_log' = {}
    /\ pc' = "db_loop"
    /\ UNCHANGED <<manifests, local_files, server_tasks, runs, mode, args, months, i,
                   task_id, tasks, pending, failed, done_this_round, j, k, dl_task_id,
                   successful, reached, submitted_run, last_status, round_queries,
                   sleeps, rounds, downloaded, last_exit>>
    /\ UNCHANGED <<ledger, beside_ecostress>>

\* What download_bundle did with an entry of the bundle.
LogEntry(what, fmeta, before) ==
    [what |-> what, file_id |-> fmeta.file_id,
     fname |-> FinalComponent(fmeta.file_name), before |-> before]

\* Lines 162-177: the next file of the bundle is skipped or is to be fetched;
\* after the last one download_bundle returns to its caller.
DBLoop ==
    /\ pc = "db_loop"
    /\ IF fi > Len(files)
       THEN /\ IF mode = "batch"
               THEN /\ k' = k + 1
                    /\ pc' = "p3_loop"
                    /\ UNCHANGED last_exit
               ELSE \* run_single_month, line 271
                    /\ pc' = "done"
                    /\ last_exit' = "complete"
                    /\ UNCHANGED k
            /\ UNCHANGED <<fi, dl_log>>
       ELSE LET fname == FinalComponent(files[fi].file_name) IN
            IF ExistsNonEmpty(fname)
            THEN /\ fi' = fi + 1
                 /\ dl_log' = dl_log \cup {LogEntry("skip", files[fi], local_files[fname])}
                 /\ UNCHANGED <<pc, k, last_exit>>
            ELSE /\ pc' = "db_request"
                 /\ dl_log' = dl_log \cup {LogEntry("fetch", files[fi], local_files[fname])}
                 /\ UNCHANGED <<fi, k, last_exit>>
    /\ UNCHANGED <<persistent, runs, mode, args, months, i, task_id, tasks, pending,
                   failed, done_this_round, j, dl_task_id, files, successful, reached,
                   submitted_run, last_status, round_queries, sleeps, rounds,
                   downloaded, listed>>
    /\ UNCHANGED <<ledger, beside_ecostress>>

\* Lines 181-189: the file is requested from the server.
DBRequest ==
    /\ pc = "db_request"
    /\ pc' = "db_open"
    /\ dl_log' = dl_log \cup {LogEntry("request", files[fi],
                                     local_files[FinalComponent(files[fi].file_name)])}
    /\ UNCHANGED <<persistent, runs, mode, args, months, i, task_id, tasks, pending,
                   failed, done_this_round, j, k, dl_task_id, files, fi, successful,
                   reached, submitted_run, last_status, round_queries, sleeps, rounds,
                   downloaded, listed, last_exit>>
    /\ UNCHANGED <<ledger, beside_ecostress>>

\* Line 192: open(outpath, "wb") creates or truncates the file.
DBOpen ==
    /\ pc = "db_open"
    /\ local_files' = [local_files EXCEPT
                         ![FinalComponent(files[fi].file_name)] = EmptyFile]
    /\ pc' = "db_write"
    /\ UNCHANGED <<manifests, server_tasks, runs, mode, args, months, i,
                   task_id, tasks, pending, failed, done_this_round, j, k, dl_task_id,
                   files, fi, successful, history>>
    /\ UNCHANGED <<ledger, beside_ecostress>>

\* Lines 193-194: a chunk of the response is written; a file's content is
\* two chunks, and the loop body of line 162 is over after the last one.
DBWrite ==
    /\ pc = "db_write"
    /\ LET fname == FinalComponent(files[fi].file_name) IN
       IF local_files[fname].st = "empty"
       THEN /\ local_files' = [local_files EXCEPT ![fname] =
                   [st |-> "partial", task_id |-> dl_task_id, file_id |-> files[fi].file_id]]
            /\ UNCHANGED <<pc, fi, dl_log>>
       ELSE /\ local_files' = [local_files EXCEPT ![fname] =
                   [st |-> "full", task_id |-> dl_task_id, file_id |-> files[fi].file_id]]
            /\ fi' = fi + 1
            /\ pc' = "db_loop"
            /\ dl_log' = dl_log \cup {LogEntry("written", files[fi], EmptyFile)}
    /\ UNCHANGED <<manifests, server_tasks, runs, mode, args, months, i,
                   task_id, tasks, pending, failed, done_this_round, j, k, dl_task_id,
                   files, successful, reached, submitted_run, last_status,
                   round_queries, sleeps, rounds, downloaded, listed, last_exit>>
    /\ UNCHANGED <<ledger, beside_ecostress>>

\* ---------------------------------------------------------------- the run ends

\* The process is killed, or a network call raises (requests.post/get fail,
\* raise_for_status): the run ends where it is.
Interrupt ==
    /\ Running
    /\ Raise("interrupted")
    /\ UNCHANGED <<persistent, runs>>
    /\ UNCHANGED <<ledger, beside_ecostress>>

Next ==
    \/ StartBatch
    \/ P1Loop
    \/ P1ManifestOpen
    \/ P1ManifestWrite
    \/ StartSingle
    \/ SCheck
    \/ SManifestOpen
    \/ SManifestWrite
    \/ SPoll
    \/ SSleep
    \/ P2While
    \/ P2Query
    \/ P2EndRound
    \/ P2Sleep
    \/ P3Loop
    \/ DBGet
    \/ DBLoop
    \/ DBRequest
    \/ DBOpen
    \/ DBWrite
    \/ Interrupt

Spec == Init /\ [][Next]_vars

\* ----------------------------------- run_batch with every request answered

\* Lines 367-377 when the task's status is 'done', 'error' or 'failed'.
P2QuerySettled ==
    /\ P2Query
    /\ last_status'[Polled[j].key] \in {"done", "error", "failed"}

\* run_batch when no request fails and the process is not killed.
NextBatch ==
    \/ StartBatch
    \/ P1Loop
    \/ P1ManifestOpen
    \/ P1ManifestWrite
    \/ P2While
    \/ P2Query
    \/ P2EndRound
    \/ P2Sleep
    \/ P3Loop
    \/ DBGet
    \/ DBLoop
    \/ DBRequest
    \/ DBOpen
    \/ DBWrite

\* The process keeps running (time.sleep returns, the replies arrive), and
\* the tasks do not report an unsettled status forever.
SpecBatchLive ==
    /\ Init
    /\ [][NextBatch]_vars
    /\ WF_vars(NextBatch)
    /\ SF_vars(P2QuerySettled)

\* ------------------------------------------- download_drought_from_drive.py

DriveRunning == d_pc \notin {"idle", "done"}

\* main, lines 110-124: authenticate, find the folder, call
\* download_drought_files.
DStart ==
    /\ ~DriveRunning
    /\ d_runs < MaxRuns
    /\ d_runs' = d_runs + 1
    /\ d_pc' = "d_list"
    /\ d_items' = <<>>
    /\ d_n' = 0
    /\ d_log' = {}
    /\ UNCHANGED <<d_local, beside_drive>>

\* Lines 76-84: the folder is listed; with no match the function returns.
DList ==
    /\ d_pc = "d_list"
    /\ \E items \in DriveListings :
        /\ d_items' = items
        /\ d_n' = 1
        /\ d_pc' = IF items = <<>> THEN "done" ELSE "d_loop"
    /\ UNCHANGED <<d_local, d_runs, d_log, beside_drive>>

\* Line 91: output_path.exists().
DriveExists(name) == d_local[name].st # "absent"

DLogEntry(what, item) ==
    [what |-> what, id |-> item.id, name |-> item.name, before |-> d_local[item.name]]

\* Lines 86-96: the next item is skipped or requested; after the last one
\* the function returns (line 126).
DLoop ==
    /\ d_pc = "d_loop"
    /\ IF d_n > Len(d_items)
       THEN /\ d_pc' = "done"
            /\ UNCHANGED <<d_n, d_log>>
       ELSE IF DriveExists(d_items[d_n].name)
       THEN /\ d_n' = d_n + 1
            /\ d_log' = d_log \cup {DLogEntry("skip", d_items[d_n])}
            /\ UNCHANGED d_pc
       ELSE /\ d_pc' = "d_open"
            /\ d_log' = d_log \cup {DLogEntry("request", d_items[d_n])}
            /\ UNCHANGED d_n
    /\ UNCHANGED <<d_local, d_runs, d_items, beside_drive>>

\* Line 98: open(output_path, 'wb') creates the file.
DOpen ==
    /\ d_pc = "d_open"
    /\ d_local' = [d_local EXCEPT ![d_items[d_n].name] = EmptyFile]
    /\ d_pc' = "d_chunk"
    /\ UNCHANGED <<d_runs, d_items, d_n, d_log, beside_drive>>

\* Lines 103-108: downloader.next_chunk() writes a chunk; a file's content
\* is two chunks, and done is True after the last one.
DChunk ==
    /\ d_pc = "d_chunk"
    /\ LET item == d_items[d_n] IN
       IF d_local[item.name].st = "empty"
       THEN /\ d_local' = [d_local EXCEPT ![item.name] =
                   [st |-> "partial", task_id |-> 0, file_id |-> item.id]]
            /\ UNCHANGED <<d_pc, d_n, d_log>>
       ELSE /\ d_local' = [d_local EXCEPT ![item.name] =
                   [st |-> "full", task_id |-> 0, file_id |-> item.id]]
            /\ d_n' = d_n + 1
            /\ d_pc' = "d_loop"
            /\ d_log' = d_log \cup {[what |-> "written", id |-> item.id,
                                     name |-> item.name, before |-> EmptyFile]}
    /\ UNCHANGED <<d_runs, d_items, beside_drive>>

\* The process is killed, or a Drive call raises: the run ends where it is.
DInterrupt ==
    /\ DriveRunning
    /\ d_pc' = "idle"
    /\ d_items' = <<>>
    /\ d_n' = 0
    /\ d_log' = {}
    /\ UNCHANGED <<d_local, d_runs, beside_drive>>

NextDrive ==
    \/ DStart
    \/ DList
    \/ DLoop
    \/ DOpen
    \/ DChunk
    \/ DInterrupt

SpecDrive == Init /\ [][NextDrive]_vars

\* ------------------------------------------------ main: the option parsing

\* The values of --year, --month, --start-year and --end-year (type=int,
\* lines 436-441), each absent or given.
YearOptions == {None, Some(2019)}
MonthOptions == {None, Some(0), Some(1), Some(12), Some(13)}
StartYearOptions == {None, Some(2019), Some(2020)}
EndYearOptions == {None, Some(2019), Some(2020)}

\* Line 465: the year of a single-month run without --year.
DefaultYear == 2023

\* Line 466: the months run_single_month is called for.
ValidMonths == 1..12

\* Lines 450-451.
has_single(a) == a.month.given
has_batch_both(a) == a.start_year.given /\ a.end_year.given
has_batch(a) == a.start_year.given \/ a.end_year.given

\* A call main makes, with the namespace it passes.
Call(fn, a) == [fn |-> fn, args |-> a]

MainRunning == c_pc \notin {"idle", "exit", "returned"}

\* Line 447, args = parser.parse_args(), of a new process.
MainParse ==
    /\ ~MainRunning
    /\ \E y \in YearOptions, m \in MonthOptions,
          sy \in StartYearOptions, ey \in EndYearOptions :
        /\ c_argv' = [year |-> y, month |-> m, start_year |-> sy, end_year |-> ey]
        /\ c_args' = c_argv'
    /\ c_called' = <<>>
    /\ c_pc' = "mode"
    /\ UNCHANGED beside_cli

\* Lines 450-456, 463 and 470: the mode is determined; parser.error prints
\* the message and exits the process.
MainMode ==
    /\ c_pc = "mode"
    /\ IF has_single(c_args) /\ has_batch(c_args)
       THEN /\ c_called' = Append(c_called, Call("parser.error", c_args))
            /\ c_pc' = "exit"
       ELSE /\ c_pc' = IF has_batch(c_args) THEN "batch"
                       ELSE IF has_single(c_args) THEN "single"
                       ELSE "neither"
            /\ UNCHANGED c_called
    /\ UNCHANGED <<c_argv, c_args, beside_cli>>

\* Lines 457-461.
MainBatch ==
    /\ c_pc = "batch"
    /\ IF ~c_args.start_year.given \/ ~c_args.end_year.given
       THEN /\ c_called' = Append(c_called, Call("parser.error", c_args))
            /\ c_pc' = "exit"
       ELSE IF c_args.start_year.v > c_args.end_year.v
       THEN /\ c_called' = Append(c_called, Call("parser.error", c_args))
            /\ c_pc' = "exit"
       ELSE /\ c_called' = Append(c_called, Call("run_batch", c_args))
            /\ c_pc' = "returned"
    /\ UNCHANGED <<c_argv, c_args, beside_cli>>

\* Lines 464-468.
MainSingle ==
    /\ c_pc = "single"
    /\ c_args' = IF ~c_args.year.given
                 THEN [c_args EXCEPT !.year = Some(DefaultYear)]
                 ELSE c_args
    /\ IF c_args.month.v \notin ValidMonths
       THEN /\ c_called' = Append(c_called, Call("parser.error", c_args'))
            /\ c_pc' = "exit"
       ELSE /\ c_called' = Append(c_called, Call("run_single_month", c_args'))
            /\ c_pc' = "returned"
    /\ UNCHANGED <<c_argv, beside_cli>>

\* Lines 470-471.
MainNeither ==
    /\ c_pc = "neither"
    /\ c_called' = Append(c_called, Call("parser.error", c_args))
    /\ c_pc' = "exit"
    /\ UNCHANGED <<c_argv, c_args, beside_cli>>

NextMain ==
    \/ MainParse
    \/ MainMode
    \/ MainBatch
    \/ MainSingle
    \/ MainNeither

SpecMain == Init /\ [][NextMain]_vars

\* ------------------------------------------------- download_gee_drought.py

\* Lines 35-36: start and end of the half-monthly periods.
gee_start == Date(2015, 1, 1)
gee_end == Date(2025, 1, 1)

\* Lines 50-53 and 63-66: the first day of the month after current's.
NextMonthStart(current) ==
    IF current.month = 12
    THEN Date(current.year + 1, 1, 1)
    ELSE Date(current.year, current.month + 1, 1)

\* current.replace(day=d).
ReplaceDay(current, d) == [current EXCEPT !.day = d]

\* strftime('%Y-%m') and strftime('%Y-%m-%d').
StrfYm(date) == ZeroPad(date.year, 4) \o <<"-">> \o ZeroPad(date.month, 2)
StrfYmd(date) == StrfYm(date) \o <<"-">> \o ZeroPad(date.day, 2)

\* Lines 43-47 and 56-60: an entry of half_monthly_periods.
Period(start, end, half) ==
    [start |-> start, end |-> end, label |-> StrfYm(start) \o <<"_", half>>]

\* Lines 34-37.
GeeStart ==
    /\ g_pc = "idle"
    /\ g_periods' = <<>>
    /\ g_current' = gee_start
    /\ g_exports' = <<>>
    /\ g_pc' = "while"
    /\ UNCHANGED beside_gee

\* Lines 39-47: the loop test and the first half of the month.
GeeFirstHalf ==
    /\ g_pc = "while"
    /\ IF DateLess(g_current, gee_end)
       THEN /\ g_periods' = Append(g_periods,
                   Period(ReplaceDay(g_current, 1), ReplaceDay(g_current, 15), "1"))
            /\ g_pc' = "second_half"
       ELSE /\ g_pc' = IF g_periods = <<>> THEN "end" ELSE "export"
            /\ UNCHANGED g_periods
    /\ UNCHANGED <<g_current, g_exports, beside_gee>>

\* Lines 49-66: the second half of the month, and the move to the next one.
GeeSecondHalf ==
    /\ g_pc = "second_half"
    /\ g_periods' = Append(g_periods,
           Period(ReplaceDay(g_current, 16), NextMonthStart(g_current), "2"))
    /\ g_current' = NextMonthStart(g_current)
    /\ g_pc' = "while"
    /\ UNCHANGED <<g_exports, beside_gee>>

\* Lines 94-98 and 69-91: the export of the next period is started, with
\* the strings filterDate gets and the export's description.
GeeExport ==
    /\ g_pc = "export"
    /\ LET period == g_periods[Len(g_exports) + 1] IN
       g_exports' = Append(g_exports,
           [start_str |-> StrfYmd(period.start),
            end_str |-> StrfYmd(period.end),
            label |-> period.label])
    /\ g_pc' = IF Len(g_exports') = Len(g_periods) THEN "end" ELSE "export"
    /\ UNCHANGED <<g_current, g_periods, beside_gee>>

NextGee ==
    \/ GeeStart
    \/ GeeFirstHalf
    \/ GeeSecondHalf
    \/ GeeExport

SpecGee == Init /\ [][NextGee]_vars

\* ------------------------------------------- the dates of a month's task

\* The years and months month_dates_mmddyyyy is called with (--year,
\* --start-year and --end-year are any int; the months are 1..12, lines 288
\* and 466).
DateYears == {999, 1900, 2000, 2019, 2020, 2023, 2024, 2100}
DateMonths == 1..12

\* calendar.isleap and calendar.monthrange(year, month)[1] (line 202): the
\* number of days of the month, from the table of month lengths.
isleap_every_fourth(year) == year % 4 = 0
isleap(year) == year % 4 = 0 /\ (year % 100 # 0 \/ year % 400 = 0)
mdays == <<31, 28, 31, 30, 31, 30, 31, 31, 30, 31, 30, 31>>
monthrange_days(year, month) ==
    mdays[month] + (IF month = 2 /\ isleap(year) THEN 1 ELSE 0)

\* Lines 196-205.
month_dates_mmddyyyy(year, month) ==
    LET last_day == monthrange_days(year, month)
        start == ZeroPad(month, 2) \o <<"-", "0", "1", "-">> \o Str(year)
        end == ZeroPad(month, 2) \o <<"-">> \o ZeroPad(last_day, 2) \o <<"-">> \o Str(year)
    IN <<start, end>>

\* Lines 324 and 211: the dates of the month at hand.
DatesCompute ==
    /\ m_pc \in {"idle", "written"}
    /\ \E year \in DateYears, month \in DateMonths :
        /\ m_year' = year
        /\ m_month' = month
        /\ m_dates' = month_dates_mmddyyyy(year, month)
    /\ m_task' = NoDates
    /\ m_manifest' = NoManifestDict
    /\ m_pc' = "submit"
    /\ UNCHANGED beside_dates

\* Lines 334 and 248, submit_task (lines 80-104): the dates of the payload.
DatesSubmit ==
    /\ m_pc = "submit"
    /\ m_task' = <<m_dates[1], m_dates[2]>>
    /\ m_pc' = "manifest"
    /\ UNCHANGED <<m_year, m_month, m_dates, m_manifest, beside_dates>>

\* Lines 335-345 and 249-259: the manifest dict that is written.
DatesManifest ==
    /\ m_pc = "manifest"
    /\ m_manifest' = [year |-> m_year, month |-> m_month,
                      start_date |-> m_dates[1], end_date |-> m_dates[2]]
    /\ m_pc' = "written"
    /\ UNCHANGED <<m_year, m_month, m_dates, m_task, beside_dates>>

NextDates ==
    \/ DatesCompute
    \/ DatesSubmit
    \/ DatesManifest

SpecDates == Init /\ [][NextDates]_vars

\* ================================================================== claims

BatchPhase1 == {"p1_loop", "p1_manifest_open", "p1_manifest_write"}
BatchPhase2 == {"p2_while", "p2_query", "p2_end", "p2_sleep"}
DownloadSteps == {"db_get", "db_loop", "db_request", "db_open", "db_write"}
Settled == {"done", "error", "failed"}

\* The ids of the tasks this run submitted for a month.
SubmittedFor(key) == {t \in submitted_run : server_tasks[t].key = key}

\* The months of the range start_year..end_year.
RangeKeys == {key \in AllKeys : args.start_year <= key[1] /\ key[1] <= args.end_year}

\* C1: in Phase 1 of run_batch a month that had no manifest when it was
\* reached got exactly one submit_task call, a month that had one got none
\* and its task id is the manifest's, a month not reached yet got none; and
\* after Phase 1 the task table has exactly one entry per month of the range.
C1_Phase1SubmitsOncePerMonth ==
    mode = "batch" =>
      /\ \A key \in AllKeys :
            /\ reached[key] = "absent" => Cardinality(SubmittedFor(key)) = 1
            /\ reached[key] = "present" =>
                  /\ SubmittedFor(key) = {}
                  /\ \A n \in 1..Len(tasks) :
                        tasks[n].key = key =>
                          /\ manifests[key].st = "ok"
                          /\ tasks[n].task_id = manifests[key].task_id
            /\ reached[key] = "unreached" => SubmittedFor(key) = {}
      /\ pc \notin BatchPhase1 =>
            /\ Len(tasks) = Cardinality(RangeKeys)
            /\ DictKeys(tasks) = RangeKeys
            /\ \A key \in RangeKeys : reached[key] # "unreached"

\* C1 witness: Phase 1 is over with one month resumed and one submitted.
C1_Witness ==
    /\ mode = "batch" /\ pc = "p2_while"
    /\ \E a, b \in DictKeys(tasks) : reached[a] = "present" /\ reached[b] = "absent"

\* C2: at most one remote task is ever submitted for a calendar month, over
\* all runs that share the output directory.
C2_AtMostOneTaskPerMonth ==
    \A key \in AllKeys :
        Cardinality({t \in 1..Len(server_tasks) : server_tasks[t].key = key}) <= 1

ManifestWindow ==
    {"p1_manifest_open", "p1_manifest_write", "s_manifest_open", "s_manifest_write"}

HasManifest(key, tid) == manifests[key].st = "ok" /\ manifests[key].task_id = tid

\* C3: every task this run submitted has a manifest of its month with its
\* task id, except the one just submitted while its manifest is being
\* written (when no submit, status query or download is issued); and every
\* month of the task table, and the month of a single-month run once it
\* polls, has a manifest with the task id the run uses.
C3_ManifestOnceSubmitted ==
    /\ \A t \in submitted_run :
          \/ pc \in ManifestWindow /\ t = task_id
          \/ HasManifest(server_tasks[t].key, t)
    /\ \A n \in 1..Len(tasks) : HasManifest(tasks[n].key, tasks[n].task_id)
    /\ (mode = "single" /\ pc \in {"s_poll", "s_sleep"} \cup DownloadSteps \cup {"done"})
          => HasManifest(SingleKey, task_id)

\* C3 witness: a run that submitted two tasks is querying their status.
C3_Witness ==
    /\ pc = "p2_query"
    /\ Cardinality(submitted_run) = 2

PendingKeys == DictKeys(pending)
FailedKeys == DictKeys(failed)
DoneKeys == {key \in DictKeys(tasks) : last_status[key] = "done"}

\* C4: in Phase 2 a round queries the outstanding tasks, each once and in
\* order; at a round boundary outstanding, done and failed are pairwise
\* disjoint and make up the task table; a task is failed exactly when its
\* last reported status was error or failed; and after Phase 2 every task
\* has reported done, error or failed.
C4_Phase2Partition ==
    (mode = "batch" /\ pc \notin BatchPhase1) =>
      /\ pc \in {"p2_query", "p2_end"} =>
            /\ Len(round_queries) = j - 1
            /\ \A n \in 1..Len(round_queries) : round_queries[n] = pending[n].key
            /\ pc = "p2_end" => Len(round_queries) = Len(pending)
      /\ pc \in {"p2_while", "p2_sleep"} =>
            /\ PendingKeys \cap DoneKeys = {}
            /\ PendingKeys \cap FailedKeys = {}
            /\ DoneKeys \cap FailedKeys = {}
            /\ PendingKeys \cup DoneKeys \cup FailedKeys = DictKeys(tasks)
            /\ Len(pending) = Cardinality(PendingKeys)
      /\ SeqSet(pending) \subseteq SeqSet(tasks)
      /\ SeqSet(failed) \subseteq SeqSet(tasks)
      /\ \A key \in DictKeys(tasks) :
            key \in FailedKeys <=> last_status[key] \in {"error", "failed"}
      /\ pc \notin BatchPhase2 =>
            /\ pending = <<>>
            /\ \A key \in DictKeys(tasks) : last_status[key] \in Settled

\* C4 witness: a round boundary with one task failed and one outstanding.
C4_Witness ==
    /\ mode = "batch" /\ pc = "p2_sleep"
    /\ Len(pending) = 1 /\ Len(failed) = 1

\* The content of the server's file file_id of task tid, fully written.
FullFile(tid, file_id) == [st |-> "full", task_id |-> tid, file_id |-> file_id]

\* The place of a task in the calls of download_bundle of this run (0: none).
CallOf(tid) ==
    IF \E n \in 1..Len(downloaded) : downloaded[n] = tid
    THEN CHOOSE n \in 1..Len(downloaded) : downloaded[n] = tid
    ELSE 0

\* C5: when run_batch has completed Phase 3, every file listed in the
\* bundle of every task that did not fail is in the output directory with
\* that file's content.
C5_EveryFileDownloaded ==
    (mode = "batch" /\ pc = "done") =>
      \A n \in 1..Len(tasks) :
        tasks[n].key \notin FailedKeys =>
          /\ CallOf(tasks[n].task_id) # 0
          /\ LET bundle == listed[CallOf(tasks[n].task_id)] IN
             \A f \in 1..Len(bundle) :
               local_files[FinalComponent(bundle[f].file_name)]
                 = FullFile(tasks[n].task_id, bundle[f].file_id)

FailedIds == {failed[n].task_id : n \in 1..Len(failed)}

\* C6: download_bundle is never called for a failed task; a batch with a
\* failed task still runs to its end, where every task has settled, the
\* bundle of every task that is not failed was downloaded (once), and the
\* reported number of successful months is the number of tasks minus the
\* number of failed tasks, which is the number of bundles downloaded.
C6_FailedSkippedBatchContinues ==
    mode = "batch" =>
      /\ SeqSet(downloaded) \cap FailedIds = {}
      /\ pc = "done" =>
            /\ \A key \in DictKeys(tasks) : last_status[key] \in Settled
            /\ SeqSet(downloaded) =
                  {tasks[n].task_id : n \in {m \in 1..Len(tasks) : tasks[m].key \notin FailedKeys}}
            /\ Len(downloaded) = Cardinality(SeqSet(downloaded))
            /\ successful = Len(tasks) - Len(failed)
            /\ successful = Len(downloaded)

\* C6 witness: a batch is complete with one task failed and the other's
\* bundle downloaded.
C6_Witness ==
    /\ mode = "batch" /\ pc = "done"
    /\ Len(failed) = 1 /\ Len(downloaded) = 1 /\ successful = 1

Logged(what) == {e \in dl_log : e.what = what}

\* C7: in download_bundle every file gone through was either skipped or
\* fetched; it was skipped exactly when a file of its target name existed
\* with size > 0; a skipped file was not requested and the local file is as
\* it was; a fetched file (missing, or of size zero) was requested and, once
\* the loop is past it, written in full.
C7_SkipIffNonEmpty ==
    pc \in DownloadSteps \ {"db_get"} =>
      /\ \A n \in 1..(fi - 1) :
            \E e \in Logged("skip") \cup Logged("fetch") : e.file_id = files[n].file_id
      /\ \A e \in Logged("skip") :
            /\ e.before.st # "absent" /\ Size(e.before) > 0
            /\ local_files[e.fname] = e.before
            /\ \A r \in Logged("request") \cup Logged("fetch") : r.file_id # e.file_id
      /\ \A e \in Logged("fetch") :
            /\ e.before.st = "absent" \/ Size(e.before) = 0
            /\ (pc = "db_loop" \/ e.file_id # files[fi].file_id) =>
                  /\ \E r \in Logged("request") : r.file_id = e.file_id
                  /\ \E r \in Logged("written") : r.file_id = e.file_id
                  /\ local_files[e.fname] = FullFile(dl_task_id, e.file_id)

\* C7 witness: one call of download_bundle has skipped a file and has
\* fetched and written one that existed with size zero.
C7_Witness ==
    /\ pc = "db_loop"
    /\ Logged("skip") # {}
    /\ \E e \in Logged("fetch") :
          /\ e.before.st = "empty"
          /\ \E r \in Logged("written") : r.file_id = e.file_id

\* C8: in download_drought_files an item is skipped only if a file of its
\* name exists locally with nonzero size: a zero-byte local file is not
\* skipped.
C8_DriveSkipsOnlyNonEmpty ==
    \A e \in d_log : e.what = "skip" => Size(e.before) > 0

\* C9: in run_batch no status is queried before every month of the range
\* is in the task table, and download_bundle is not called (so no bundle or
\* file is requested) before every task has reported done, error or failed.
C9_PhasesOrdered ==
    mode = "batch" =>
      /\ (\E key \in AllKeys : last_status[key] # "unqueried") =>
            /\ DictKeys(tasks) = RangeKeys
            /\ \A key \in RangeKeys : reached[key] # "unreached"
      /\ (downloaded # <<>> \/ pc \in DownloadSteps) =>
            /\ pending = <<>>
            /\ \A key \in DictKeys(tasks) : last_status[key] \in Settled

\* C9 witness: a file of a bundle is requested in a batch of two tasks.
C9_Witness ==
    /\ mode = "batch" /\ pc = "db_request"
    /\ Len(tasks) = 2

\* The sleeps expected when a status query is made: none before the first
\* one, one of the polling interval before every other.
SleepsBeforeQuery == IF rounds = "none" THEN <<>> ELSE <<args.poll>>

\* C10: in run_batch exactly one sleep of args.poll seconds lies between
\* two consecutive polling rounds and none follows the last round; in
\* poll_until_done exactly one sleep of poll_seconds (args.poll) lies
\* between two consecutive status queries and none follows the last query.
C10_OneSleepBetweenRounds ==
    /\ (mode = "batch" /\ pc \in {"p2_query", "p2_end"}) => sleeps = SleepsBeforeQuery
    /\ (mode = "batch" /\ pc = "p2_sleep") => sleeps = <<>>
    /\ (mode = "batch" /\ pc = "p2_while") =>
          sleeps = IF pending = <<>> \/ rounds = "none" THEN <<>> ELSE <<args.poll>>
    /\ (mode = "batch" /\ pc \in {"p3_loop", "done"} \cup DownloadSteps) => sleeps = <<>>
    /\ (mode = "single" /\ pc = "s_poll") => sleeps = SleepsBeforeQuery
    /\ (mode = "single" /\ pc = "s_sleep") => sleeps = <<>>
    /\ (mode = "single" /\ pc \in {"done"} \cup DownloadSteps) => sleeps = <<>>

\* C10 witness: a second polling round of a batch begins after one sleep.
C10_Witness ==
    /\ mode = "batch" /\ pc = "p2_query"
    /\ rounds = "some"
    /\ sleeps = <<args.poll>>

\* C11: in run_single_month a task that reports 'error' or 'failed' ends
\* the run by the RuntimeError of poll_until_done: the run never goes on
\* with such a status, at the raise no bundle and no file has been requested
\* and no data file is written, and download_bundle is called, and a data
\* file written, only after the status 'done' was observed.
C11_SingleFailureRaisesBeforeDownload ==
    /\ [](mode = "single" =>
            /\ last_status[SingleKey] \notin {"error", "failed"}
            /\ (pc \in DownloadSteps \cup {"done"} \/ downloaded # <<>>) =>
                  /\ last_status[SingleKey] = "done"
                  /\ downloaded = <<task_id>>)
    /\ [][/\ (mode = "single" /\ last_exit' = "task_failed") =>
                /\ pc = "s_poll" /\ pc' = "idle"
                /\ downloaded = <<>> /\ listed = <<>> /\ dl_log = {}
                /\ local_files' = local_files
          /\ (mode = "single" /\ local_files' # local_files) =>
                last_status[SingleKey] = "done"]_vars

\* C11 witness: a single-month run ended by the RuntimeError of a failed
\* task, its manifest in place and the output directory untouched.
C11_Witness ==
    /\ last_exit = "task_failed" /\ pc = "idle"
    /\ \E key \in AllKeys : manifests[key].st = "ok"
    /\ \A n \in LocalNames : local_files[n] = NoFile

\* The command lines for which the claim lets main run run_batch, and those
\* for which it lets main run run_single_month.
BatchOptions(o) ==
    /\ o.start_year.given /\ o.end_year.given
    /\ o.start_year.v <= o.end_year.v
    /\ ~o.month.given
SingleOptions(o) ==
    /\ o.month.given /\ o.month.v \in 1..12
    /\ ~o.start_year.given /\ ~o.end_year.given

\* C12: for every combination of --year, --month, --start-year and
\* --end-year main makes exactly one of the calls parser.error, run_batch
\* and run_single_month, and nothing before it: run_batch exactly when both
\* range options are given with start <= end and --month is absent,
\* run_single_month exactly when --month is given in 1..12 and no range
\* option is given (with year 2023 when --year is absent, else the given
\* year), parser.error for every other combination.
C12_MainRunsOneModeOrErrors ==
    /\ Len(c_called) <= 1
    /\ MainRunning => c_called = <<>>
    /\ c_pc \in {"exit", "returned"} =>
          /\ Len(c_called) = 1
          /\ c_called[1].fn = "run_batch" <=> BatchOptions(c_argv)
          /\ c_called[1].fn = "run_single_month" <=> SingleOptions(c_argv)
          /\ c_called[1].fn = "parser.error" <=>
                (~BatchOptions(c_argv) /\ ~SingleOptions(c_argv))
          /\ c_called[1].fn = "parser.error" <=> c_pc = "exit"
          /\ c_called[1].fn = "run_single_month" =>
                c_called[1].args.year =
                    IF c_argv.year.given THEN c_argv.year ELSE Some(2023)
          /\ c_called[1].fn = "run_batch" =>
                /\ c_called[1].args.start_year = c_argv.start_year
                /\ c_called[1].args.end_year = c_argv.end_year

\* C12 witness: main was given --year alone and exited with a parser error.
C12_Witness ==
    /\ c_pc = "exit"
    /\ c_argv = [NoOptions EXCEPT !.year = Some(2019)]
    /\ c_called = <<Call("parser.error", c_argv)>>

\* C13: when every status query is answered and no task reports an
\* unsettled status forever, Phase 2 of run_batch ends and Phase 3 begins;
\* and Phase 2 ends in no other way (there is no timeout): it is left only
\* for Phase 3, with pending empty and every task having reported 'done',
\* 'error' or 'failed', and no download starts while a task is pending.
C13_Phase2EndsWhenAllSettled ==
    /\ (mode = "batch" /\ pc \in BatchPhase2) ~> (mode = "batch" /\ pc = "p3_loop")
    /\ [][(mode = "batch" /\ pc \in BatchPhase2 /\ pc' \notin BatchPhase2) =>
              /\ pc' = "p3_loop"
              /\ pending = <<>>
              /\ \A key \in DictKeys(tasks) : last_status[key] \in Settled]_vars
    /\ []((mode = "batch" /\ pending # <<>>) =>
              (pc \in BatchPhase2 /\ downloaded = <<>>))

\* C13 witness: Phase 3 begins after more than one polling round of a
\* batch of two tasks.
C13_Witness ==
    /\ mode = "batch" /\ pc = "p3_loop" /\ k = 1
    /\ Len(tasks) = 2
    /\ Len(done_this_round) = 1

\* C14: when a call of download_bundle has returned, every file of its
\* bundle that is present locally from a download for the same task (by
\* this run or by an earlier, interrupted one) has its complete content: no
\* partially written file is left in place.
C14_ResumeLeavesCompleteFiles ==
    (pc \in {"p3_loop", "done"} /\ downloaded # <<>>) =>
        \A n \in 1..Len(files) :
            LET f == local_files[FinalComponent(files[n].file_name)] IN
            (f.task_id = dl_task_id /\ f.file_id = files[n].file_id) =>
                f.st = "full"

\* C15: a manifest file, once written, is never changed or deleted by
\* run_batch or run_single_month (a manifest file changes only inside the
\* write_text call that creates it); and once the task of a month has
\* reported 'error' or 'failed', the month's manifest holds that task's id,
\* every run that reaches the month takes this id, and no run submits
\* another task for the month.
C15_ManifestNeverRewritten ==
    /\ [][\A key \in AllKeys :
            /\ manifests[key].st = "ok" => manifests'[key] = manifests[key]
            /\ (manifests[key].st = "empty" /\ manifests'[key] # manifests[key]) =>
                  /\ pc \in {"p1_manifest_write", "s_manifest_write"}
                  /\ manifests'[key].st = "ok"
            /\ (manifests[key].st = "nofile" /\ manifests'[key] # manifests[key]) =>
                  pc \in {"p1_manifest_open", "s_manifest_open"}]_vars
    /\ [](\A key \in AllKeys :
            failed_task[key] # 0 =>
              /\ manifests[key].st = "ok"
              /\ manifests[key].task_id = failed_task[key]
              /\ SubmittedFor(key) \subseteq {failed_task[key]}
              /\ \A n \in 1..Len(tasks) :
                    tasks[n].key = key => tasks[n].task_id = failed_task[key]
              /\ (mode = "single" /\ SingleKey = key /\ pc # "s_check") =>
                    task_id = failed_task[key])

\* C15 witness: a later batch run has resumed, from the manifest, the task
\* that reported error or failed in an earlier run, and has submitted
\* nothing for its month.
C15_Witness ==
    /\ mode = "batch" /\ pc = "p2_while" /\ runs = 2
    /\ \E n \in 1..Len(tasks) :
          /\ failed_task[tasks[n].key] = tasks[n].task_id
          /\ reached[tasks[n].key] = "present"
          /\ last_status[tasks[n].key] = "unqueried"
          /\ SubmittedFor(tasks[n].key) = {}

\* The Gregorian calendar: leap years and the number of days of a month.
GregorianLeap(y) == (y % 4 = 0 /\ y % 100 # 0) \/ y % 400 = 0
GregorianDays(y, m) ==
    IF m = 2 THEN (IF GregorianLeap(y) THEN 29 ELSE 28)
    ELSE IF m \in {4, 6, 9, 11} THEN 30 ELSE 31

\* The number a digit character stands for, and the date a string
\* YYYY-MM-DD stands for.
DigitValue(c) == CHOOSE n \in 0..9 : DigitChar(n) = c
DateOfYmd(str) ==
    Date(1000 * DigitValue(str[1]) + 100 * DigitValue(str[2])
            + 10 * DigitValue(str[3]) + DigitValue(str[4]),
         10 * DigitValue(str[6]) + DigitValue(str[7]),
         10 * DigitValue(str[9]) + DigitValue(str[10]))

\* The calendar days from 2015-01-01 up to but not including 2025-01-01.
DroughtDays ==
    {dt \in {Date(y, m, d) : y \in 2015..2024, m \in 1..12, d \in 1..31} :
        dt.day <= GregorianDays(dt.year, dt.month)}

\* The n-th calendar month from 2015-01 on, as the first day of it.
DroughtMonth(n) == Date(2015 + ((n - 1) \div 12), ((n - 1) % 12) + 1, 1)

\* Whether a day lies in the interval an export filters on, with the end
\* date taken as inclusive or as exclusive.
InInterval(day, from, to, inclusive) ==
    /\ ~DateLess(day, from)
    /\ DateLess(day, to) \/ (inclusive /\ day = to)

\* C16: the half-monthly periods are two per calendar month from 2015-01
\* through 2024-12, in chronological order, with pairwise distinct labels;
\* and every calendar day from 2015-01-01 up to but not including
\* 2025-01-01 lies in the interval of exactly one exported period, with the
\* end date of a period read as inclusive and also with it read as
\* exclusive.
C16_HalfMonthsPartitionRange ==
    g_pc = "end" =>
      LET iv == [n \in 1..Len(g_exports) |->
                    [from |-> DateOfYmd(g_exports[n].start_str),
                     to |-> DateOfYmd(g_exports[n].end_str)]]
      IN
      /\ Len(g_periods) = 240 /\ Len(g_exports) = 240
      /\ \A n \in 1..120 :
            /\ g_periods[2 * n - 1].start = DroughtMonth(n)
            /\ g_periods[2 * n].start = [DroughtMonth(n) EXCEPT !.day = 16]
      /\ \A a, b \in 1..Len(g_periods) :
            /\ a < b => DateLess(g_periods[a].start, g_periods[b].start)
            /\ a # b => g_periods[a].label # g_periods[b].label
      /\ \A inclusive \in BOOLEAN :
            \A day \in DroughtDays :
                Cardinality({n \in 1..Len(iv) :
                    InInterval(day, iv[n].from, iv[n].to, inclusive)}) = 1

\* The number a string of digit characters stands for.
RECURSIVE NumberOf(_)
NumberOf(str) ==
    IF str = <<>> THEN 0
    ELSE 10 * NumberOf(SubSeq(str, 1, Len(str) - 1)) + DigitValue(str[Len(str)])

IsDigits(str) == \A n \in 1..Len(str) : \E d \in 0..9 : str[n] = DigitChar(d)

\* A string of the form MM-DD-Y..Y: two digits, "-", two digits, "-", and
\* the digits of the year; and the month, day and year it names.
IsMmDdYyyy(str) ==
    /\ Len(str) >= 7
    /\ str[3] = "-" /\ str[6] = "-"
    /\ IsDigits(SubSeq(str, 1, 2)) /\ IsDigits(SubSeq(str, 4, 5))
    /\ IsDigits(SubSeq(str, 7, Len(str)))
    /\ str[7] # "0"
DateOfMdy(str) ==
    Date(NumberOf(SubSeq(str, 7, Len(str))),
         NumberOf(SubSeq(str, 1, 2)),
         NumberOf(SubSeq(str, 4, 5)))

====
